---- MODULE Spec2Model ----
(***************************************************************************)
(* Model of the Skyland puzzle game: the puzzle validation engine          *)
(* (src/src/level.rs) and the frame loop that edits the solution           *)
(* (src/src/main.rs, src/src/input.rs, src/src/game_screen.rs,             *)
(* src/src/select_level_screen.rs, src/src/main_menu_screen.rs).           *)
(*                                                                         *)
(* Grids are functions over 0..n-1 (Rust Vec indices), sequences of        *)
(* placements and violations are TLA+ sequences (1-based); a Rust index i  *)
(* into such a Vec is position i+1 of the sequence.                        *)
(***************************************************************************)
EXTENDS Integers, Sequences, FiniteSets, TLC

\* ------------------------------------------------------------------------
\* Bounds of the model
\* ------------------------------------------------------------------------

\* longest solution the validation harness builds on a grid of up to 6 cells
MaxPlacements == 4

\* longest solution the validation harness builds on the 5x5 fixture
MaxFixturePlacements == 2

\* largest row/column target used by the generated count vectors
MaxTarget == 1

\* ------------------------------------------------------------------------
\* level.rs: cell types, puzzle geometry
\* ------------------------------------------------------------------------

CellType == {"Grass", "Tree", "Lake", "Mountain"}

\* variant of from_char that turns an unknown byte into Grass
from_char_lenient(c) ==
    CASE c = "." -> "Grass"
      [] c = "T" -> "Tree"
      [] c = "L" -> "Lake"
      [] c = "M" -> "Mountain"
      [] OTHER   -> "Grass"

\* CellType::from_char; an unknown byte panics
from_char(c) ==
    CASE c = "." -> "Grass"
      [] c = "T" -> "Tree"
      [] c = "L" -> "Lake"
      [] c = "M" -> "Mountain"
      [] OTHER   -> "panic"

\* field_from_size
field_from_size(rows, cols) == [r \in 0 .. rows - 1 |-> [c \in 0 .. cols - 1 |-> "Grass"]]

\* the body of the loops of parse_field for one cell: s is a sequence of
\* lines, a line a sequence of characters.  A cell holding 'x' is skipped and
\* keeps the Grass of field_from_size; any other character goes through
\* from_char.
parse_cell(s, r, c) ==
    IF s[r + 1][c + 1] \in {"x"}
    THEN field_from_size(Len(s), Len(s[1]))[r][c]
    ELSE from_char(s[r + 1][c + 1])

\* whether parse_field panics: from_char panics in some cell
parse_field_panics(s) ==
    \E r \in 0 .. Len(s) - 1 : \E c \in 0 .. Len(s[r + 1]) - 1 : parse_cell(s, r, c) = "panic"

\* parse_field; a panic in any cell makes the whole call panic
parse_field(s) ==
    IF parse_field_panics(s)
    THEN "panic"
    ELSE [r \in 0 .. Len(s) - 1 |-> [c \in 0 .. Len(s[1]) - 1 |-> parse_cell(s, r, c)]]

\* Vec literal vec![a, b, ...] as a function over 0..n-1
Vec(s) == [i \in 0 .. Len(s) - 1 |-> s[i + 1]]

\* Puzzle::rows
rows(puzzle) == Cardinality(DOMAIN puzzle.field)

\* Puzzle::cols
cols(puzzle) == Cardinality(DOMAIN puzzle.field[0])

\* variant of is_valid that is off by one at the lower bounds
is_valid_positive(puzzle, row, col) ==
    row > 0 /\ row < rows(puzzle) /\ col > 0 /\ col < cols(puzzle)

\* Puzzle::is_valid over signed coordinates
is_valid(puzzle, row, col) ==
    row >= 0 /\ row < rows(puzzle) /\ col >= 0 /\ col < cols(puzzle)

\* struct Position
Position(row, col) == [row |-> row, col |-> col]

\* every in-bounds position of a puzzle
Cells(puzzle) == {Position(r, c) : r \in 0 .. rows(puzzle) - 1, c \in 0 .. cols(puzzle) - 1}

DROW == <<1, 0, -1, 0>>
DCOL == <<0, 1, 0, -1>>

\* ------------------------------------------------------------------------
\* level.rs: validate_solution and its counting helpers
\* ------------------------------------------------------------------------

\* variant of has_house_of whose loop stops one placement early
has_house_of_skip_last(solution, puzzle) ==
    [r \in 0 .. rows(puzzle) - 1 |->
        [c \in 0 .. cols(puzzle) - 1 |->
            \E i \in 1 .. Len(solution) - 1 : solution[i].position = Position(r, c)]]

\* the occupancy grid built by the first loop of validate_solution
has_house_of(solution, puzzle) ==
    [r \in 0 .. rows(puzzle) - 1 |->
        [c \in 0 .. cols(puzzle) - 1 |->
            \E i \in 1 .. Len(solution) : solution[i].position = Position(r, c)]]

\* variant of cmp_status that reports a reached target as Underflow
cmp_status_le(count, target) ==
    IF count <= target THEN "Underflow" ELSE "Overflow"

\* usize::cmp mapped to Underflow / Match / Overflow
cmp_status(count, target) ==
    IF count < target THEN "Underflow"
    ELSE IF count = target THEN "Match"
    ELSE "Overflow"

\* variant of diagonal_ray that leaves the loop at the first house
RECURSIVE diagonal_ray_first_hit(_, _, _, _, _, _, _)
diagonal_ray_first_hit(row, col, drow, dcol, d, has_house, puzzle) ==
    LET limit == IF rows(puzzle) >= cols(puzzle) THEN rows(puzzle) ELSE cols(puzzle)
        nrow  == row + drow * d
        ncol  == col + dcol * d
    IN  IF d >= limit THEN 0
        ELSE IF ~is_valid(puzzle, nrow, ncol) THEN 0
        ELSE IF has_house[nrow][ncol] THEN 1
        ELSE diagonal_ray_first_hit(row, col, drow, dcol, d + 1, has_house, puzzle)

\* variant of diagonal_ray that looks at the nearest diagonal cell only
diagonal_ray_nearest_cell(row, col, drow, dcol, d, has_house, puzzle) ==
    IF d = 1 /\ is_valid(puzzle, row + drow, col + dcol) /\ has_house[row + drow][col + dcol]
    THEN 1
    ELSE 0

\* one diagonal ray of count_diagnoal_houses: the loop over d, left at the
\* first out-of-bounds cell
RECURSIVE diagonal_ray(_, _, _, _, _, _, _)
diagonal_ray(row, col, drow, dcol, d, has_house, puzzle) ==
    LET limit == IF rows(puzzle) >= cols(puzzle) THEN rows(puzzle) ELSE cols(puzzle)
        nrow  == row + drow * d
        ncol  == col + dcol * d
    IN  IF d >= limit THEN 0
        ELSE IF ~is_valid(puzzle, nrow, ncol) THEN 0
        ELSE (IF has_house[nrow][ncol] THEN 1 ELSE 0)
             + diagonal_ray(row, col, drow, dcol, d + 1, has_house, puzzle)

\* count_diagnoal_houses: the four rays summed
count_diagnoal_houses(row, col, has_house, puzzle) ==
      diagonal_ray(row, col, -1, -1, 1, has_house, puzzle)
    + diagonal_ray(row, col, -1, 1, 1, has_house, puzzle)
    + diagonal_ray(row, col, 1, -1, 1, has_house, puzzle)
    + diagonal_ray(row, col, 1, 1, 1, has_house, puzzle)

\* variant of count_houses_in_3x3 that leaves out the diagonal neighbours
count_houses_in_plus(row, col, has_house, puzzle) ==
    Cardinality({d \in (-1 .. 1) \X (-1 .. 1) :
                    /\ d[1] = 0 \/ d[2] = 0
                    /\ is_valid(puzzle, row + d[1], col + d[2])
                    /\ has_house[row + d[1]][col + d[2]]})

\* count_houses_in_3x3: drow and dcol both range over -1..=1
count_houses_in_3x3(row, col, has_house, puzzle) ==
    Cardinality({d \in (-1 .. 1) \X (-1 .. 1) :
                    /\ is_valid(puzzle, row + d[1], col + d[2])
                    /\ has_house[row + d[1]][col + d[2]]})

\* variant of adjacent_from whose loop covers three directions only
RECURSIVE adjacent_from_three(_, _, _, _, _)
adjacent_from_three(d, row, col, has_house, puzzle) ==
    LET nrow == row + DROW[d + 1]
        ncol == col + DCOL[d + 1]
    IN  IF d >= 3 THEN 0
        ELSE IF ~is_valid(puzzle, nrow, ncol)
             THEN adjacent_from_three(d + 1, row, col, has_house, puzzle)
        ELSE IF has_house[nrow][ncol] THEN 1
        ELSE adjacent_from_three(d + 1, row, col, has_house, puzzle)

\* count_adjacent_houses: the loop over the four directions, left at the
\* first occupied neighbour
RECURSIVE adjacent_from(_, _, _, _, _)
adjacent_from(d, row, col, has_house, puzzle) ==
    LET nrow == row + DROW[d + 1]
        ncol == col + DCOL[d + 1]
    IN  IF d >= 4 THEN 0
        ELSE IF ~is_valid(puzzle, nrow, ncol)
             THEN adjacent_from(d + 1, row, col, has_house, puzzle)
        ELSE IF has_house[nrow][ncol] THEN 1
        ELSE adjacent_from(d + 1, row, col, has_house, puzzle)

\* variant of count_adjacent_houses that also looks at the diagonal neighbours
count_touching_houses(row, col, has_house, puzzle) ==
    IF \E d \in (-1 .. 1) \X (-1 .. 1) :
          /\ d # <<0, 0>>
          /\ is_valid(puzzle, row + d[1], col + d[2])
          /\ has_house[row + d[1]][col + d[2]]
    THEN 1
    ELSE 0

count_adjacent_houses(row, col, has_house, puzzle) ==
    adjacent_from(0, row, col, has_house, puzzle)

\* variant of row_status_of that leaves every entry at its initial Underflow
row_status_of_initial(has_house, puzzle) ==
    [row \in 0 .. rows(puzzle) - 1 |-> "Underflow"]

\* the cells at which count_diagnoal_houses indexes has_house: along each
\* ray the cells before the first one is_valid rejects
reads_diagonal(row, col, puzzle) ==
    LET limit == IF rows(puzzle) >= cols(puzzle) THEN rows(puzzle) ELSE cols(puzzle)
        ray(drow, dcol) ==
            {Position(row + drow * d, col + dcol * d) :
                d \in {e \in 1 .. limit - 1 :
                         \A f \in 1 .. e : is_valid(puzzle, row + drow * f, col + dcol * f)}}
    IN  ray(-1, -1) \cup ray(-1, 1) \cup ray(1, -1) \cup ray(1, 1)

\* the cells at which count_houses_in_3x3 indexes has_house
reads_in_3x3(row, col, puzzle) ==
    {Position(row + d[1], col + d[2]) :
        d \in {e \in (-1 .. 1) \X (-1 .. 1) : is_valid(puzzle, row + e[1], col + e[2])}}

\* the cells at which count_adjacent_houses can index has_house
reads_adjacent(row, col, puzzle) ==
    {Position(row + DROW[d], col + DCOL[d]) :
        d \in {e \in 1 .. 4 : is_valid(puzzle, row + DROW[e], col + DCOL[e])}}

\* the row loop of validate_solution
row_status_of(has_house, puzzle) ==
    [row \in 0 .. rows(puzzle) - 1 |->
        cmp_status(Cardinality({c \in 0 .. cols(puzzle) - 1 : has_house[row][c]}),
                   puzzle.row_count[row])]

\* variant of col_status_of that counts the houses of the whole grid for
\* every column
col_status_of_whole_grid(has_house, puzzle) ==
    [col \in 0 .. cols(puzzle) - 1 |->
        cmp_status(Cardinality({p \in Cells(puzzle) : has_house[p.row][p.col]}),
                   puzzle.col_count[col])]

\* the column loop of validate_solution
col_status_of(has_house, puzzle) ==
    [col \in 0 .. cols(puzzle) - 1 |->
        cmp_status(Cardinality({r \in 0 .. rows(puzzle) - 1 : has_house[r][col]}),
                   puzzle.col_count[col])]

\* the placement loop of validate_solution: indices in solution order
RECURSIVE placement_violations_from(_, _, _, _)
placement_violations_from(i, solution, has_house, puzzle) ==
    IF i > Len(solution) THEN <<>>
    ELSE LET position == solution[i].position
             here == IF count_adjacent_houses(position.row, position.col, has_house, puzzle) > 0
                     THEN <<[house_index |-> i - 1, violation |-> "AdjacentHouse"]>>
                     ELSE <<>>
         IN  here \o placement_violations_from(i + 1, solution, has_house, puzzle)

\* variant of cell_constraint with no arm for Mountain
cell_constraint_lake_only(row, col, has_house, puzzle) ==
    IF puzzle.field[row][col] = "Lake"
    THEN <<[position  |-> Position(row, col),
            violation |-> cmp_status(count_houses_in_3x3(row, col, has_house, puzzle), 3)]>>
    ELSE <<>>

\* variant of cell_constraint that pushes an entry only for a violated constraint
cell_constraint_sparse(row, col, has_house, puzzle) ==
    LET count == IF puzzle.field[row][col] = "Lake"
                 THEN count_houses_in_3x3(row, col, has_house, puzzle)
                 ELSE count_diagnoal_houses(row, col, has_house, puzzle)
        target == IF puzzle.field[row][col] = "Lake" THEN 3 ELSE 2
    IN  IF puzzle.field[row][col] \in {"Lake", "Mountain"} /\ count # target
        THEN <<[position |-> Position(row, col), violation |-> cmp_status(count, target)]>>
        ELSE <<>>

\* variant of cell_constraint that compares a Lake's count with 8
cell_constraint_lake_eight(row, col, has_house, puzzle) ==
    CASE puzzle.field[row][col] = "Lake" ->
            <<[position  |-> Position(row, col),
               violation |-> cmp_status(count_houses_in_3x3(row, col, has_house, puzzle), 8)]>>
      [] puzzle.field[row][col] = "Mountain" ->
            <<[position  |-> Position(row, col),
               violation |-> cmp_status(count_diagnoal_houses(row, col, has_house, puzzle), 2)]>>
      [] OTHER -> <<>>

\* the match on one cell in the constraint loop of validate_solution
cell_constraint(row, col, has_house, puzzle) ==
    CASE puzzle.field[row][col] = "Lake" ->
            <<[position  |-> Position(row, col),
               violation |-> cmp_status(count_houses_in_3x3(row, col, has_house, puzzle), 3)]>>
      [] puzzle.field[row][col] = "Mountain" ->
            <<[position  |-> Position(row, col),
               violation |-> cmp_status(count_diagnoal_houses(row, col, has_house, puzzle), 2)]>>
      [] OTHER -> <<>>

\* the constraint loop of validate_solution: row-major over all cells, k is
\* the row-major cell number
RECURSIVE constraint_violations_from(_, _, _)
constraint_violations_from(k, has_house, puzzle) ==
    IF k >= rows(puzzle) * cols(puzzle) THEN <<>>
    ELSE cell_constraint(k \div cols(puzzle), k % cols(puzzle), has_house, puzzle)
         \o constraint_violations_from(k + 1, has_house, puzzle)

\* the `complete` value read by detect_complete_level
complete_of(row_status, col_status, placement_violations, constraint_violations) ==
    /\ \A r \in DOMAIN row_status : row_status[r] = "Match"
    /\ \A c \in DOMAIN col_status : col_status[c] = "Match"
    /\ \A i \in 1 .. Len(constraint_violations) : constraint_violations[i].violation = "Match"
    /\ Len(placement_violations) = 0

\* validate_solution
validate_solution(solution, puzzle) ==
    LET has_house == has_house_of(solution, puzzle)
        row_status == row_status_of(has_house, puzzle)
        col_status == col_status_of(has_house, puzzle)
        placement_violations == placement_violations_from(1, solution, has_house, puzzle)
        constraint_violations == constraint_violations_from(0, has_house, puzzle)
    IN  [row_status            |-> row_status,
         col_status            |-> col_status,
         placement_violations  |-> placement_violations,
         constraint_violations |-> constraint_violations,
         complete              |-> complete_of(row_status, col_status,
                                               placement_violations, constraint_violations)]

\* ------------------------------------------------------------------------
\* level.rs: the shipped levels
\* ------------------------------------------------------------------------

\* two_takes()
two_takes ==
    [name   |-> "Twin Lakes",
     puzzle |-> [field |-> parse_field(<<
            <<".", ".", ".", ".">>,
            <<"L", ".", "L", ".">>,
            <<".", ".", ".", ".">>,
            <<".", ".", "T", ".">>>>),
                 row_count |-> Vec(<<2, 1, 2, 1>>),
                 col_count |-> Vec(<<2, 1, 1, 2>>)]]

\* trees_4x4()
trees_4x4 ==
    [name   |-> "Forest",
     puzzle |-> [field |-> parse_field(<<
            <<".", ".", "T", ".">>,
            <<".", "T", ".", ".">>,
            <<".", ".", "T", ".">>,
            <<".", "T", ".", ".">>>>),
                 row_count |-> Vec(<<2, 1, 2, 1>>),
                 col_count |-> Vec(<<2, 1, 1, 2>>)]]

\* mountain_4x4()
mountain_4x4 ==
    [name   |-> "Green Mountain",
     puzzle |-> [field |-> parse_field(<<
            <<".", ".", "T", ".">>,
            <<".", "M", ".", ".">>,
            <<".", "T", "T", ".">>,
            <<"T", ".", ".", ".">>>>),
                 row_count |-> Vec(<<1, 1, 1, 2>>),
                 col_count |-> Vec(<<1, 2, 1, 1>>)]]

\* lake_and_trees_4x4()
lake_and_trees_4x4 ==
    [name   |-> "Green Lake",
     puzzle |-> [field |-> parse_field(<<
            <<".", ".", ".", ".">>,
            <<".", "T", "L", ".">>,
            <<".", ".", "T", ".">>,
            <<".", ".", ".", ".">>>>),
                 row_count |-> Vec(<<1, 1, 1, 2>>),
                 col_count |-> Vec(<<1, 2, 1, 1>>)]]

\* mountain_lakes_5x5()
mountain_lakes_5x5 ==
    [name   |-> "Mountain lakes",
     puzzle |-> [field |-> parse_field(<<
            <<".", ".", ".", ".", ".">>,
            <<".", "T", ".", "L", "T">>,
            <<".", ".", "M", ".", ".">>,
            <<".", ".", "T", "L", ".">>,
            <<".", ".", ".", ".", ".">>>>),
                 row_count |-> Vec(<<2, 1, 1, 2, 1>>),
                 col_count |-> Vec(<<1, 1, 2, 1, 2>>)]]

\* twin_mountains_5x5()
twin_mountains_5x5 ==
    [name   |-> "Twin Mountains",
     puzzle |-> [field |-> parse_field(<<
            <<".", ".", ".", ".", ".">>,
            <<".", ".", ".", ".", ".">>,
            <<".", "M", ".", "M", ".">>,
            <<".", ".", ".", ".", ".">>,
            <<".", ".", ".", ".", ".">>>>),
                 row_count |-> Vec(<<2, 1, 0, 1, 2>>),
                 col_count |-> Vec(<<2, 0, 2, 0, 2>>)]]

\* lonely_mountain_5x5()
lonely_mountain_5x5 ==
    [name   |-> "Lonely Mountain",
     puzzle |-> [field |-> parse_field(<<
            <<".", ".", ".", ".", ".">>,
            <<".", "L", ".", ".", ".">>,
            <<".", ".", ".", "L", ".">>,
            <<".", "M", ".", ".", ".">>,
            <<".", ".", ".", ".", ".">>>>),
                 row_count |-> Vec(<<1, 2, 2, 2, 2>>),
                 col_count |-> Vec(<<2, 1, 2, 2, 2>>)]]

\* mega_lakes_5x5()
mega_lakes_5x5 ==
    [name   |-> "Lake Valley",
     puzzle |-> [field |-> parse_field(<<
            <<".", ".", ".", ".", ".">>,
            <<".", "L", ".", "L", ".">>,
            <<".", ".", ".", ".", ".">>,
            <<".", "L", ".", "L", ".">>,
            <<".", ".", ".", ".", ".">>>>),
                 row_count |-> Vec(<<1, 2, 2, 1, 2>>),
                 col_count |-> Vec(<<2, 1, 2, 1, 2>>)]]

\* study_lines()
study_lines ==
    [name   |-> "First",
     puzzle |-> [field |-> parse_field(<<
            <<".">>>>),
                 row_count |-> Vec(<<1>>),
                 col_count |-> Vec(<<1>>)]]

\* study_2x2()
study_2x2 ==
    [name   |-> "Neighbourhood",
     puzzle |-> [field |-> parse_field(<<
            <<".", ".">>,
            <<".", ".">>>>),
                 row_count |-> Vec(<<1, 1>>),
                 col_count |-> Vec(<<1, 1>>)]]

\* study_2x3()
study_2x3 ==
    [name   |-> "Third",
     puzzle |-> [field |-> parse_field(<<
            <<".", ".", ".">>,
            <<".", ".", ".">>>>),
                 row_count |-> Vec(<<2, 1>>),
                 col_count |-> Vec(<<1, 1, 1>>)]]

\* study_trees()
study_trees ==
    [name   |-> "Trees",
     puzzle |-> [field |-> parse_field(<<
            <<".", ".", "T", ".">>,
            <<".", "T", ".", ".">>>>),
                 row_count |-> Vec(<<2, 2>>),
                 col_count |-> Vec(<<1, 1, 1, 1>>)]]

\* all_levels(): index i of the Rust Vec is position i+1
all_levels ==
    <<study_lines, study_2x2, study_2x3, study_trees, mega_lakes_5x5,
      lonely_mountain_5x5, mountain_lakes_5x5, two_takes, trees_4x4,
      mountain_4x4, lake_and_trees_4x4, twin_mountains_5x5>>

\* ------------------------------------------------------------------------
\* State
\* ------------------------------------------------------------------------

VARIABLES
    puzzle,         \* GameState.puzzle
    solution,       \* GameState.solution.placements
    hints,          \* GameState.hints
    name,           \* GameState.name
    current_level,  \* GameState.current_level
    app_state,      \* State<AppState>
    next_state,     \* NextState<AppState>: the state set for the next transition, or "None"
    banner,         \* Visibility of the CompleteBanner entity, "Despawned" off the game screen
    volume,         \* GlobalVolumeSettings.volume
    result,         \* the ValidationResult of the latest validate_solution call
    last_click,     \* the mouse buttons just pressed in the latest Update and what the
                    \* cell under the cursor held before it
    phase,          \* position in the frame: "startup", "transition" or "update"
    observed,       \* whether detect_complete_level found validation_result.complete
                    \* in the latest Update
    text,           \* the argument of the latest parse_field call
    parsed,         \* its outcome: whether it panicked, and the field it returned
    success_sounds  \* level_success.wav AudioBundles spawned during the current stay
                    \* in InGame, 0 outside it

vars == <<puzzle, solution, hints, name, current_level, app_state, next_state,
          banner, volume, result, last_click, phase, observed, text, parsed,
          success_sounds>>

parseVars == <<text, parsed>>

gameVars == <<hints, name, current_level, app_state, next_state, banner, volume, last_click,
              phase, observed, success_sounds>>

\* no mouse button just pressed
NoClick == [left |-> FALSE, right |-> FALSE, on |-> "nothing"]

\* the outcome of parse_field(s) as a record; a panicked call returns no field
parse_outcome(s) ==
    [panic |-> parse_field_panics(s),
     field |-> IF parse_field_panics(s) THEN field_from_size(0, 0) ELSE parse_field(s)]

\* vec![vec![false; cols]; rows]
no_hints(p) == [r \in 0 .. rows(p) - 1 |-> [c \in 0 .. cols(p) - 1 |-> FALSE]]

\* ------------------------------------------------------------------------
\* Validation harness: validate_solution applied to bounded inputs
\* ------------------------------------------------------------------------

\* count vectors of the generated puzzles, one pair per k
target_rows(n, k) == [r \in 0 .. n - 1 |-> (r + k) % (MaxTarget + 1)]
target_cols(n, k) == [c \in 0 .. n - 1 |-> (c + k + 1) % (MaxTarget + 1)]

\* Grass-only 2x2 grids with every generated count vector
GrassPuzzles ==
    {[field     |-> field_from_size(2, 2),
      row_count |-> target_rows(2, k),
      col_count |-> target_cols(2, k)] : k \in 0 .. MaxTarget}

\* 3x3: Tree in a corner, Mountain on an edge, Lake in the centre
Mixed3x3 ==
    [field     |-> parse_field(<< <<"T", "M", ".">>,
                                  <<".", "L", ".">>,
                                  <<".", ".", ".">> >>),
     row_count |-> Vec(<<0, 2, 1>>),
     col_count |-> Vec(<<1, 1, 1>>)]

\* 2x3: Lake in a corner, Mountain on an edge, Tree in a corner
Mixed2x3 ==
    [field     |-> parse_field(<< <<"L", "M", ".">>,
                                  <<".", ".", "T">> >>),
     row_count |-> Vec(<<1, 1>>),
     col_count |-> Vec(<<1, 0, 1>>)]

\* 3x2: Mountain on an edge, Lake on an edge, Tree in a corner
Mixed3x2 ==
    [field     |-> parse_field(<< <<".", ".">>,
                                  <<"M", "L">>,
                                  <<".", "T">> >>),
     row_count |-> Vec(<<1, 0, 1>>),
     col_count |-> Vec(<<1, 1>>)]

\* 5x5: all Grass except a Mountain at (2,2)
Mountain5x5 ==
    [field     |-> parse_field(<< <<".", ".", ".", ".", ".">>,
                                  <<".", ".", ".", ".", ".">>,
                                  <<".", ".", "M", ".", ".">>,
                                  <<".", ".", ".", ".", ".">>,
                                  <<".", ".", ".", ".", ".">> >>),
     row_count |-> Vec(<<1, 0, 0, 0, 1>>),
     col_count |-> Vec(<<1, 0, 0, 0, 1>>)]

\* 4x4: all Grass except a Lake at (1,1)
Lake4x4 ==
    [field     |-> parse_field(<< <<".", ".", ".", ".">>,
                                  <<".", "L", ".", ".">>,
                                  <<".", ".", ".", ".">>,
                                  <<".", ".", ".", ".">> >>),
     row_count |-> Vec(<<3, 2, 3, 0>>),
     col_count |-> Vec(<<3, 2, 3, 0>>)]

\* the 8 cells around the Lake of Lake4x4
LakeSurround ==
    {c \in Cells(Lake4x4) : c # Position(1, 1) /\ c.row <= 2 /\ c.col <= 2}

TestPuzzles == GrassPuzzles \cup {Mixed3x3, Mixed2x3, Mixed3x2, Mountain5x5, Lake4x4}

\* how many placements the harness puts on a puzzle: one fewer on the 3x3
\* grid than on the smaller ones
PlacementCap(p) ==
    IF p = Mountain5x5 THEN MaxFixturePlacements
    ELSE IF p = Mixed3x3 THEN MaxPlacements - 1
    ELSE MaxPlacements

\* the positions the harness pushes next: on Lake4x4 the cells around the
\* Lake, each once and in row-major order, up to all 8 of them; on the other
\* puzzles any cell while the solution is below the cap
Pushable(p, s) ==
    IF p = Lake4x4
    THEN {c \in LakeSurround :
            \A i \in 1 .. Len(s) :
                s[i].position.row * cols(p) + s[i].position.col < c.row * cols(p) + c.col}
    ELSE IF Len(s) < PlacementCap(p) THEN Cells(p) ELSE {}

InitValidate ==
    /\ puzzle \in TestPuzzles
    /\ solution = <<>>
    /\ result = validate_solution(solution, puzzle)
    /\ hints = no_hints(puzzle)
    /\ name = ""
    /\ current_level = 0
    /\ app_state = "InGame"
    /\ next_state = "None"
    /\ banner = "Hidden"
    /\ volume = 0
    /\ last_click = NoClick
    /\ phase = "update"
    /\ observed = FALSE
    /\ success_sounds = 0
    /\ text = << <<".">> >>
    /\ parsed = parse_outcome(text)

\* placements.push(Placement { position }) followed by validate_solution
PushPlacement ==
    \E position \in Pushable(puzzle, solution) :
        /\ solution' = Append(solution, [position |-> position])
        /\ result' = validate_solution(solution', puzzle)
        /\ UNCHANGED <<puzzle, gameVars, parseVars>>

\* Vec::remove(index)
remove(s, index) == [i \in 1 .. Len(s) - 1 |-> IF i <= index THEN s[i] ELSE s[i + 1]]

\* placements.remove(index) followed by validate_solution
RemovePlacement ==
    \E index \in 0 .. Len(solution) - 1 :
        /\ solution' = remove(solution, index)
        /\ result' = validate_solution(solution', puzzle)
        /\ UNCHANGED <<puzzle, gameVars, parseVars>>

NextValidate == PushPlacement \/ RemovePlacement

SpecValidate == InitValidate /\ [][NextValidate]_vars

\* ------------------------------------------------------------------------
\* Parsing harness: parse_field applied to bounded textual grids
\* ------------------------------------------------------------------------

\* the textual grids have at most MaxCells characters
MaxCells == 4

\* the four cell characters, the house marker and a byte that is none of them
Alphabet == {".", "T", "L", "M", "x", "?"}

InitParse ==
    /\ text \in {<< <<c>> >> : c \in Alphabet}
    /\ parsed = parse_outcome(text)
    /\ puzzle = Mixed2x3
    /\ solution = <<>>
    /\ result = validate_solution(solution, puzzle)
    /\ hints = no_hints(puzzle)
    /\ name = ""
    /\ current_level = 0
    /\ app_state = "InGame"
    /\ next_state = "None"
    /\ banner = "Hidden"
    /\ volume = 0
    /\ last_click = NoClick
    /\ phase = "update"
    /\ observed = FALSE
    /\ success_sounds = 0

\* parse_field on the grid with one more line
ParseWithLine ==
    /\ (Len(text) + 1) * Len(text[1]) <= MaxCells
    /\ \E line \in [1 .. Len(text[1]) -> Alphabet] : text' = Append(text, line)
    /\ parsed' = parse_outcome(text')
    /\ UNCHANGED <<puzzle, solution, result, gameVars>>

\* parse_field on the grid with one more character in every line
ParseWithColumn ==
    /\ Len(text) * (Len(text[1]) + 1) <= MaxCells
    /\ \E column \in [1 .. Len(text) -> Alphabet] :
         text' = [r \in 1 .. Len(text) |-> Append(text[r], column[r])]
    /\ parsed' = parse_outcome(text')
    /\ UNCHANGED <<puzzle, solution, result, gameVars>>

NextParse == ParseWithLine \/ ParseWithColumn

SpecParse == InitParse /\ [][NextParse]_vars

\* ------------------------------------------------------------------------
\* The game: frames of the Bevy app (main.rs, input.rs, game_screen.rs,
\* select_level_screen.rs, main_menu_screen.rs)
\*
\* A frame is the StateTransition schedule followed by the Update schedule.
\* The systems of Update that touch GameState run one after the other in an
\* order the scheduler picks; a system whose input is absent in the frame
\* does nothing and is left out of the order.
\* ------------------------------------------------------------------------

\* the game keeps at most MaxMarks placements and hint flags together
MaxMarks == 2

\* the cursor stays on the first ClickCount cells of the grid, counted
\* outwards from the top-left corner, the diagonal cell of each ring first
ClickCount == 3

Keys == {"Right", "Left", "L", "M"}

\* the mutable part of the world a system works on
World ==
    [puzzle |-> puzzle, solution |-> solution, hints |-> hints, name |-> name,
     current_level |-> current_level, next_state |-> next_state,
     banner |-> banner, volume |-> volume, observed |-> FALSE,
     success_sounds |-> success_sounds]

\* GameState::new(game_level, current_level)
GameState_new(game_level, level) ==
    [puzzle |-> game_level.puzzle, solution |-> <<>>, name |-> game_level.name,
     current_level |-> level, hints |-> no_hints(game_level.puzzle)]

\* the toggle of GlobalVolumeSettings.volume between 0.0 and 1.0
toggle_volume(v) == IF v = 0 THEN 1 ELSE 0

\* variant of keyboard_input whose Right key does not test for the last level
keyboard_input_unguarded(g, keys) ==
    LET g1 == IF "Right" \in keys
              THEN [g EXCEPT !.current_level = @ + 1, !.next_state = "SwitchLevel"]
              ELSE g
        g2 == IF "Left" \in keys /\ g1.current_level > 0
              THEN [g1 EXCEPT !.current_level = @ - 1, !.next_state = "SwitchLevel"]
              ELSE g1
        g3 == IF "L" \in keys THEN [g2 EXCEPT !.next_state = "SelectLevelScreen"] ELSE g2
    IN  IF "M" \in keys THEN [g3 EXCEPT !.volume = toggle_volume(@)] ELSE g3

\* variant of keyboard_input whose Right key loads the puzzle of the next
\* level itself
keyboard_input_load(g, keys) ==
    LET g1 == IF "Right" \in keys /\ g.current_level + 1 < Len(all_levels)
              THEN [g EXCEPT !.current_level = @ + 1, !.next_state = "SwitchLevel",
                             !.puzzle = all_levels[g.current_level + 2].puzzle]
              ELSE g
        g2 == IF "Left" \in keys /\ g1.current_level > 0
              THEN [g1 EXCEPT !.current_level = @ - 1, !.next_state = "SwitchLevel"]
              ELSE g1
        g3 == IF "L" \in keys THEN [g2 EXCEPT !.next_state = "SelectLevelScreen"] ELSE g2
    IN  IF "M" \in keys THEN [g3 EXCEPT !.volume = toggle_volume(@)] ELSE g3

\* input.rs keyboard_input: the four `if keys.just_pressed(..)` in sequence
keyboard_input(g, keys) ==
    LET g1 == IF "Right" \in keys /\ g.current_level + 1 < Len(all_levels)
              THEN [g EXCEPT !.current_level = @ + 1, !.next_state = "SwitchLevel"]
              ELSE g
        g2 == IF "Left" \in keys /\ g1.current_level > 0
              THEN [g1 EXCEPT !.current_level = @ - 1, !.next_state = "SwitchLevel"]
              ELSE g1
        g3 == IF "L" \in keys THEN [g2 EXCEPT !.next_state = "SelectLevelScreen"] ELSE g2
    IN  IF "M" \in keys THEN [g3 EXCEPT !.volume = toggle_volume(@)] ELSE g3

\* placements.iter().position(|x| x.position == position): the Rust index of
\* the first placement at the position, -1 for None
RECURSIVE position_from(_, _, _)
position_from(i, placements, position) ==
    IF i > Len(placements) THEN -1
    ELSE IF placements[i].position = position THEN i - 1
    ELSE position_from(i + 1, placements, position)

\* variant of left_click without the search for a placement at the position
left_click_unchecked(g, position) ==
    IF g.puzzle.field[position.row][position.col] = "Grass"
    THEN [g EXCEPT !.solution = Append(@, [position |-> position]),
                   !.hints[position.row][position.col] = FALSE]
    ELSE g

\* variant of left_click without the test for a Grass cell
left_click_any_cell(g, position) ==
    IF \A i \in 1 .. Len(g.solution) : ~(g.solution[i].position = position)
    THEN [g EXCEPT !.solution = Append(@, [position |-> position]),
                   !.hints[position.row][position.col] = FALSE]
    ELSE g

\* variant of left_click that leaves the hint flag of the cell as it is
left_click_keep_hint(g, position) ==
    IF /\ g.puzzle.field[position.row][position.col] = "Grass"
       /\ \A i \in 1 .. Len(g.solution) : ~(g.solution[i].position = position)
    THEN [g EXCEPT !.solution = Append(@, [position |-> position])]
    ELSE g

\* the `if left_just_pressed && ..` block shared by both mouse handlers
left_click(g, position) ==
    IF /\ g.puzzle.field[position.row][position.col] = "Grass"
       /\ \A i \in 1 .. Len(g.solution) : ~(g.solution[i].position = position)
    THEN [g EXCEPT !.solution = Append(@, [position |-> position]),
                   !.hints[position.row][position.col] = FALSE]
    ELSE g

\* the `if right_just_pressed` block shared by both mouse handlers
right_click(g, position) ==
    LET index == position_from(1, g.solution, position)
    IN  IF index >= 0
        THEN [g EXCEPT !.solution = remove(@, index),
                       !.hints[position.row][position.col] = FALSE]
        ELSE IF g.puzzle.field[position.row][position.col] = "Grass"
        THEN [g EXCEPT !.hints[position.row][position.col] = ~@]
        ELSE g

\* game_screen.rs handle_mouse_input; m.cursor is the cell under the cursor
handle_mouse_input(g, m) ==
    IF is_valid(g.puzzle, m.cursor.row, m.cursor.col)
    THEN LET g1 == IF m.left THEN left_click(g, m.cursor) ELSE g
         IN  IF m.right THEN right_click(g1, m.cursor) ELSE g1
    ELSE g

\* input.rs mouse_input: the same two blocks on the same cell
mouse_input(g, m) ==
    IF is_valid(g.puzzle, m.cursor.row, m.cursor.col)
    THEN LET g1 == IF m.left THEN left_click(g, m.cursor) ELSE g
         IN  IF m.right THEN right_click(g1, m.cursor) ELSE g1
    ELSE g

\* variant of detect_complete_level that never shows the banner
detect_complete_level_silent(g) ==
    LET validation_result == validate_solution(g.solution, g.puzzle)
    IN  [g EXCEPT !.observed = validation_result.complete]

\* variant of detect_complete_level that spawns the sound whenever the
\* solution is complete, whatever the visibility of the banner
detect_complete_level_replay(g) ==
    LET validation_result == validate_solution(g.solution, g.puzzle)
    IN  IF validation_result.complete
        THEN [g EXCEPT !.banner = "Visible", !.observed = validation_result.complete,
                       !.success_sounds = IF @ < 2 THEN @ + 1 ELSE @]
        ELSE [g EXCEPT !.observed = validation_result.complete]

\* variant of detect_complete_level that shows the banner as soon as no
\* house stands next to another
detect_complete_level_eager(g) ==
    LET validation_result == validate_solution(g.solution, g.puzzle)
    IN  IF validation_result.placement_violations = <<>> /\ g.banner = "Hidden"
        THEN [g EXCEPT !.banner = "Visible", !.observed = validation_result.complete,
                       !.success_sounds = @ + 1]
        ELSE [g EXCEPT !.observed = validation_result.complete]

\* game_screen.rs detect_complete_level
detect_complete_level(g) ==
    LET validation_result == validate_solution(g.solution, g.puzzle)
    IN  IF validation_result.complete /\ g.banner = "Hidden"
        THEN [g EXCEPT !.banner = "Visible", !.observed = validation_result.complete,
                       !.success_sounds = @ + 1]
        ELSE [g EXCEPT !.observed = validation_result.complete]

\* game_screen.rs button_system for one pressed button
button_system(g, action) ==
    CASE action = "Back" -> [g EXCEPT !.next_state = "MainMenuScreen"]
      [] action = "ToggleSound" -> [g EXCEPT !.volume = toggle_volume(@)]
      [] action = "Complete" ->
            IF g.current_level + 1 < Len(all_levels)
            THEN [g EXCEPT !.current_level = @ + 1, !.next_state = "SwitchLevel"]
            ELSE g

\* main_menu_screen.rs button_system for one pressed button
menu_button_system(g, action) ==
    CASE action = "Play" -> [g EXCEPT !.next_state = "SwitchLevel"]
      [] action = "Levels" -> [g EXCEPT !.next_state = "SelectLevelScreen"]

\* select_level_screen.rs handle_button_click for one pressed level button
handle_button_click(g, index) ==
    [g EXCEPT !.current_level = index, !.next_state = "SwitchLevel"]

\* variant of switch_levels that keeps the hints of the level left
switch_levels_keep_hints(g) ==
    LET game_level == all_levels[g.current_level + 1]
    IN  [g EXCEPT !.puzzle = game_level.puzzle,
                  !.solution = <<>>,
                  !.name = game_level.name,
                  !.next_state = "InGame"]

\* variant of switch_levels that keeps the solution of the level left
switch_levels_keep_solution(g) ==
    LET game_level == all_levels[g.current_level + 1]
    IN  [g EXCEPT !.puzzle = game_level.puzzle,
                  !.name = game_level.name,
                  !.hints = no_hints(game_level.puzzle),
                  !.next_state = "InGame"]

\* main.rs switch_levels, the OnEnter(SwitchLevel) system
switch_levels(g) ==
    LET game_level == all_levels[g.current_level + 1]
    IN  [g EXCEPT !.puzzle = game_level.puzzle,
                  !.solution = <<>>,
                  !.name = game_level.name,
                  !.hints = no_hints(game_level.puzzle),
                  !.next_state = "InGame"]

\* the OnExit schedule of a state: destroy_game_screen despawns the banner;
\* the stay in InGame ends and the count of its sounds starts over
on_exit(g, exited) ==
    IF exited = "InGame"
    THEN [g EXCEPT !.banner = "Despawned", !.success_sounds = 0]
    ELSE g

\* the OnEnter schedule of a state: create_game_screen spawns the banner
\* hidden (create_hud), switch_levels loads the level
on_enter(g, entered) ==
    CASE entered = "InGame" -> [g EXCEPT !.banner = "Hidden"]
      [] entered = "SwitchLevel" -> switch_levels(g)
      [] OTHER -> g

\* one system of the frame applied to the world
run_system(g, system, input) ==
    CASE system = "keyboard_input" -> keyboard_input(g, input.keys)
      [] system = "handle_mouse_input" -> handle_mouse_input(g, input.mouse)
      [] system = "mouse_input" -> mouse_input(g, input.mouse)
      [] system = "detect_complete_level" -> detect_complete_level(g)
      [] system = "button_system" -> button_system(g, input.button)
      [] system = "menu_button_system" -> menu_button_system(g, input.button)
      [] system = "handle_button_click" -> handle_button_click(g, input.button)

\* the systems of a frame run in the given order
RECURSIVE run_systems(_, _, _)
run_systems(g, order, input) ==
    IF order = <<>> THEN g
    ELSE run_systems(run_system(g, Head(order), input), Tail(order), input)

\* all orders of a set of systems
Orders(S) == {o \in [1 .. Cardinality(S) -> S] : \A i, j \in 1 .. Cardinality(S) : i # j => o[i] # o[j]}

\* the world after a frame's Update becomes the state
Commit(g) ==
    /\ puzzle' = g.puzzle
    /\ solution' = g.solution
    /\ hints' = g.hints
    /\ name' = g.name
    /\ current_level' = g.current_level
    /\ next_state' = g.next_state
    /\ banner' = g.banner
    /\ volume' = g.volume
    /\ observed' = g.observed
    /\ success_sounds' = g.success_sounds
    /\ UNCHANGED <<result, parseVars>>

\* what is under the cursor: nothing of the grid, a house, free Grass, or
\* terrain no house can stand on
cell_holds(g, position) ==
    IF ~is_valid(g.puzzle, position.row, position.col) THEN "off_grid"
    ELSE IF \E i \in 1 .. Len(g.solution) : g.solution[i].position = position THEN "house"
    ELSE IF g.puzzle.field[position.row][position.col] = "Grass" THEN "grass"
    ELSE "terrain"

\* cells the cursor can be on
cursor_index(c) ==
    LET m == IF c.row > c.col THEN c.row ELSE c.col
    IN  IF c.row = c.col THEN m * m
        ELSE IF c.row < c.col THEN m * m + 1 + 2 * c.row
        ELSE m * m + 2 + 2 * c.col

ClickCells(p) == {c \in Cells(p) : cursor_index(c) < ClickCount}

\* cursor positions outside the grid: above the first row, past the last column
OffGrid(p) == {Position(-1, 0), Position(0, cols(p))}

\* number of hint flags set
hint_count(h) == Cardinality({c \in (DOMAIN h) \X (DOMAIN h[0]) : h[c[1]][c[2]]})

\* after Startup: setup has inserted GameState::new(level 0, 0) and
\* GlobalVolumeSettings { volume: 0.0 }; the state is the default SwitchLevel
Init ==
    LET game_state == GameState_new(all_levels[1], 0)
    IN  /\ puzzle = game_state.puzzle
        /\ solution = game_state.solution
        /\ hints = game_state.hints
        /\ name = game_state.name
        /\ current_level = game_state.current_level
        /\ app_state = "SwitchLevel"
        /\ next_state = "None"
        /\ banner = "Despawned"
        /\ volume = 0
        /\ result = validate_solution(game_state.solution, game_state.puzzle)
        /\ last_click = NoClick
        /\ phase = "startup"
        /\ observed = FALSE
        /\ success_sounds = 0
        /\ text = << <<".">> >>
        /\ parsed = parse_outcome(text)

\* run_enter_schedule: OnEnter of the initial state, once, in the first frame
RunEnterSchedule ==
    /\ phase = "startup"
    /\ Commit(on_enter(World, app_state))
    /\ UNCHANGED <<app_state, last_click>>
    /\ phase' = "transition"

\* apply_state_transition with a state set in NextState: the state is taken
\* out of NextState, then OnExit of the old and OnEnter of the new state run
ApplyStateTransition ==
    /\ phase = "transition"
    /\ next_state # "None"
    /\ next_state # app_state
    /\ app_state' = next_state
    /\ Commit(on_enter(on_exit([World EXCEPT !.next_state = "None"], app_state), next_state))
    /\ last_click' = NoClick
    /\ phase' = "update"

\* apply_state_transition when NextState names the current state: the
\* queued state is taken and no schedule runs
SameStateTransition ==
    /\ phase = "transition"
    /\ next_state = app_state
    /\ next_state' = "None"
    /\ UNCHANGED <<puzzle, solution, hints, name, current_level, app_state, banner,
                   volume, result, parseVars, success_sounds>>
    /\ last_click' = NoClick
    /\ observed' = FALSE
    /\ phase' = "update"

\* apply_state_transition with nothing queued
NoStateTransition ==
    /\ phase = "transition"
    /\ next_state = "None"
    /\ UNCHANGED <<puzzle, solution, hints, name, current_level, app_state, next_state,
                   banner, volume, result, parseVars, success_sounds>>
    /\ last_click' = NoClick
    /\ observed' = FALSE
    /\ phase' = "update"

\* Update of a frame with just-pressed keys and, on a screen with buttons,
\* possibly one pressed button
KeyboardFrame ==
    /\ phase = "update"
    /\ \E keys \in (SUBSET Keys) \ {{}} :
         LET systems == {"keyboard_input"}
                        \cup (IF app_state = "InGame" THEN {"detect_complete_level"} ELSE {})
         IN  \E order \in Orders(systems) :
                Commit(run_systems(World, order, [keys |-> keys]))
    /\ last_click' = NoClick
    /\ UNCHANGED app_state
    /\ phase' = "transition"

\* the frame leaves the placements and the hint flags within MaxMarks
WithinBounds(g) == Len(g.solution) + hint_count(g.hints) <= MaxMarks

\* Update of an InGame frame with a just-pressed mouse button and the
\* cursor over a cell or outside the grid: both mouse handlers and
\* detect_complete_level, in any order
MouseFrame ==
    /\ phase = "update"
    /\ app_state = "InGame"
    /\ \E left, right \in BOOLEAN, cursor \in ClickCells(puzzle) \cup OffGrid(puzzle) :
         /\ left \/ right
         /\ \E order \in Orders({"handle_mouse_input", "mouse_input", "detect_complete_level"}) :
              LET m == [left |-> left, right |-> right, cursor |-> cursor]
                  g == run_systems(World, order, [mouse |-> m])
              IN  /\ WithinBounds(run_system(World, "handle_mouse_input", [mouse |-> m]))
                  /\ WithinBounds(g)
                  /\ Commit(g)
                  /\ last_click' = [left |-> left, right |-> right, on |-> cell_holds(World, cursor)]
    /\ UNCHANGED app_state
    /\ phase' = "transition"

\* Update of an InGame frame with one pressed HUD button; the Complete
\* button is the CompleteBanner entity and takes presses only while visible
ButtonFrame ==
    /\ phase = "update"
    /\ app_state = "InGame"
    /\ \E action \in {"Back", "ToggleSound", "Complete"} :
         /\ action = "Complete" => banner = "Visible"
         /\ \E order \in Orders({"button_system", "detect_complete_level"}) :
              Commit(run_systems(World, order, [button |-> action]))
    /\ last_click' = NoClick
    /\ UNCHANGED app_state
    /\ phase' = "transition"

\* Update of a MainMenuScreen frame with one pressed menu button
MenuFrame ==
    /\ phase = "update"
    /\ app_state = "MainMenuScreen"
    /\ \E action \in {"Play", "Levels"} :
         Commit(run_systems(World, <<"menu_button_system">>, [button |-> action]))
    /\ last_click' = NoClick
    /\ UNCHANGED app_state
    /\ phase' = "transition"

\* Update of a SelectLevelScreen frame with one pressed level button
SelectLevelFrame ==
    /\ phase = "update"
    /\ app_state = "SelectLevelScreen"
    /\ \E index \in 0 .. Len(all_levels) - 1 :
         Commit(run_systems(World, <<"handle_button_click">>, [button |-> index]))
    /\ last_click' = NoClick
    /\ UNCHANGED app_state
    /\ phase' = "transition"

\* Update of a frame without input: on the game screen only
\* detect_complete_level changes anything
IdleFrame ==
    /\ phase = "update"
    /\ Commit(IF app_state = "InGame" THEN detect_complete_level(World) ELSE World)
    /\ last_click' = NoClick
    /\ UNCHANGED app_state
    /\ phase' = "transition"

Next ==
    \/ RunEnterSchedule
    \/ ApplyStateTransition
    \/ SameStateTransition
    \/ NoStateTransition
    \/ KeyboardFrame
    \/ MouseFrame
    \/ ButtonFrame
    \/ MenuFrame
    \/ SelectLevelFrame
    \/ IdleFrame

Spec == Init /\ [][Next]_vars

\* ------------------------------------------------------------------------
\* Playing through the levels: the game driven by left-clicks and the
\* Complete button only
\* ------------------------------------------------------------------------

\* position of a cell in row-major order
row_major_index(p, c) == c.row * cols(p) + c.col

\* the cells the player left-clicks next: house-free Grass cells after the
\* last house in row-major order, when the rows above are satisfied and the
\* house breaks no rule
SolveCells(g) ==
    {c \in Cells(g.puzzle) :
        /\ g.puzzle.field[c.row][c.col] = "Grass"
        /\ \A i \in 1 .. Len(g.solution) :
             row_major_index(g.puzzle, g.solution[i].position) < row_major_index(g.puzzle, c)
        /\ LET v == validate_solution(Append(g.solution, [position |-> c]), g.puzzle)
           IN  /\ v.placement_violations = <<>>
               /\ \A r \in 0 .. rows(g.puzzle) - 1 : v.row_status[r] # "Overflow"
               /\ \A r \in 0 .. c.row - 1 : v.row_status[r] = "Match"
               /\ \A k \in 0 .. cols(g.puzzle) - 1 : v.col_status[k] # "Overflow"
               /\ \A k \in 1 .. Len(v.constraint_violations) :
                    v.constraint_violations[k].violation # "Overflow"}

\* Update of an InGame frame with the left button just pressed over one of
\* the cells the player picks: both mouse handlers and detect_complete_level,
\* in any order
SolveFrame ==
    /\ phase = "update"
    /\ app_state = "InGame"
    /\ \E cursor \in SolveCells(World) :
         \E order \in Orders({"handle_mouse_input", "mouse_input", "detect_complete_level"}) :
            LET m == [left |-> TRUE, right |-> FALSE, cursor |-> cursor]
            IN  /\ Commit(run_systems(World, order, [mouse |-> m]))
                /\ last_click' = [left |-> TRUE, right |-> FALSE, on |-> cell_holds(World, cursor)]
    /\ UNCHANGED app_state
    /\ phase' = "transition"

\* Update of an InGame frame with the Complete button pressed; the button is
\* the CompleteBanner entity and takes presses only while visible
CompleteFrame ==
    /\ phase = "update"
    /\ app_state = "InGame"
    /\ banner = "Visible"
    /\ \E order \in Orders({"button_system", "detect_complete_level"}) :
         Commit(run_systems(World, order, [button |-> "Complete"]))
    /\ last_click' = NoClick
    /\ UNCHANGED app_state
    /\ phase' = "transition"

NextPlay ==
    \/ RunEnterSchedule
    \/ ApplyStateTransition
    \/ NoStateTransition
    \/ SolveFrame
    \/ CompleteFrame
    \/ IdleFrame

SpecPlay == Init /\ [][NextPlay]_vars

\* ------------------------------------------------------------------------
\* Properties of validate_solution (checked under SpecValidate)
\* ------------------------------------------------------------------------

\* positions that hold at least one placement
Occupied == {solution[i].position : i \in 1 .. Len(solution)}

Abs(x) == IF x < 0 THEN -x ELSE x

\* the status a count has against a target
ThreeWay(count, target) ==
    CASE count < target -> "Underflow"
      [] count = target -> "Match"
      [] count > target -> "Overflow"

LakeCells == {p \in Cells(puzzle) : puzzle.field[p.row][p.col] = "Lake"}

MountainCells == {p \in Cells(puzzle) : puzzle.field[p.row][p.col] = "Mountain"}

\* indices of the entries of constraint_violations at position p
EntriesAt(p) ==
    {k \in 1 .. Len(result.constraint_violations) : result.constraint_violations[k].position = p}

\* the statuses constraint_violations reports for position p
StatusAt(p) == {result.constraint_violations[k].violation : k \in EntriesAt(p)}

\* occupied cells among the 8 cells around p
Around(p) == {q \in Occupied : q # p /\ Abs(q.row - p.row) <= 1 /\ Abs(q.col - p.col) <= 1}

\* occupied cells orthogonally next to p
NextTo(p) == {q \in Occupied : Abs(q.row - p.row) + Abs(q.col - p.col) = 1}

\* cells of the grid on the diagonal ray from p in direction dir
RayCells(p, dir) ==
    {q \in Cells(puzzle) : \E d \in 1 .. rows(puzzle) + cols(puzzle) :
        q.row = p.row + d * dir[1] /\ q.col = p.col + d * dir[2]}

Diagonals == {<<-1, -1>>, <<-1, 1>>, <<1, -1>>, <<1, 1>>}

\* C1: `complete` is true exactly when every row status and every column
\* status is Match, every Lake and Mountain cell has the constraint status
\* Match, and placement_violations is empty.
C1_CompleteIffAllMatch ==
    result.complete <=>
        /\ \A r \in 0 .. rows(puzzle) - 1 : result.row_status[r] = "Match"
        /\ \A c \in 0 .. cols(puzzle) - 1 : result.col_status[c] = "Match"
        /\ \A p \in LakeCells \cup MountainCells : StatusAt(p) = {"Match"}
        /\ result.placement_violations = <<>>

C1_Witness ==
    /\ result.complete
    /\ LakeCells # {}
    /\ MountainCells # {}
    /\ Len(solution) >= 3

\* C2: row_status has one entry per row and col_status one per column, and
\* entry i is Underflow, Match or Overflow exactly when the number of
\* occupied cells of the line is below, at or above the line's target.
C2_LineStatus ==
    /\ DOMAIN result.row_status = 0 .. rows(puzzle) - 1
    /\ DOMAIN result.col_status = 0 .. cols(puzzle) - 1
    /\ \A r \in 0 .. rows(puzzle) - 1 :
         result.row_status[r] =
            ThreeWay(Cardinality({q \in Occupied : q.row = r}), puzzle.row_count[r])
    /\ \A c \in 0 .. cols(puzzle) - 1 :
         result.col_status[c] =
            ThreeWay(Cardinality({q \in Occupied : q.col = c}), puzzle.col_count[c])

C2_Witness ==
    /\ rows(puzzle) # cols(puzzle)
    /\ \E r \in 0 .. rows(puzzle) - 1 : result.row_status[r] = "Overflow"
    /\ \E r \in 0 .. rows(puzzle) - 1 : result.row_status[r] = "Underflow"
    /\ \E c \in 0 .. cols(puzzle) - 1 : result.col_status[c] = "Match" /\ puzzle.col_count[c] > 0
    /\ \E c \in 0 .. cols(puzzle) - 1 : result.col_status[c] = "Overflow"

\* C3: placement_violations holds house_index i exactly when an orthogonal
\* neighbour of placement i is occupied, holds no index twice, and its
\* indices are positions in the solution sequence.
C3_AdjacentHouse ==
    LET pv == result.placement_violations
    IN  /\ \A i \in 0 .. Len(solution) - 1 :
             (\E k \in 1 .. Len(pv) : pv[k].house_index = i)
                <=> NextTo(solution[i + 1].position) # {}
        /\ \A k \in 1 .. Len(pv) : pv[k].house_index \in 0 .. Len(solution) - 1
        /\ \A k1, k2 \in 1 .. Len(pv) : k1 # k2 => pv[k1].house_index # pv[k2].house_index
        /\ (Len(solution) = 2 /\ solution[1].position = Position(0, 0)
                              /\ solution[2].position = Position(0, 1))
             => {pv[k].house_index : k \in 1 .. Len(pv)} = {0, 1}

C3_Witness ==
    /\ \E i \in 1 .. Len(solution) : Cardinality(NextTo(solution[i].position)) >= 2
    /\ \E i \in 1 .. Len(solution) : NextTo(solution[i].position) = {}
    /\ Len(result.placement_violations) = Len(solution) - 1

\* C4: a Lake cell that holds no house has the status of the number of
\* occupied cells among its in-bounds surrounding cells against 3.
C4_LakeStatus ==
    \A p \in LakeCells :
        p \notin Occupied => StatusAt(p) = {ThreeWay(Cardinality(Around(p)), 3)}

C4_Witness ==
    \E p \in LakeCells :
        /\ p \notin Occupied
        /\ p.row = 0 \/ p.col = 0 \/ p.row = rows(puzzle) - 1 \/ p.col = cols(puzzle) - 1
        /\ StatusAt(p) = {"Overflow"}

\* C5: the count and the status of a Lake do not depend on placements on
\* the Lake cell itself.
C5_LakeIgnoresOwnCell ==
    \A p \in LakeCells :
        LET without == SelectSeq(solution, LAMBDA x : x.position # p)
            other   == validate_solution(without, puzzle)
        IN  /\ count_houses_in_3x3(p.row, p.col, has_house_of(solution, puzzle), puzzle)
                = count_houses_in_3x3(p.row, p.col, has_house_of(without, puzzle), puzzle)
            /\ \A k \in EntriesAt(p) :
                 result.constraint_violations[k] = other.constraint_violations[k]

C7_MountainStatus ==
    /\ \A p \in MountainCells :
         StatusAt(p) =
            {ThreeWay(Cardinality({q \in Occupied :
                                     q # p /\ Abs(q.row - p.row) = Abs(q.col - p.col)}), 2)}
    /\ (puzzle = Mountain5x5 /\ Occupied = {Position(0, 0), Position(4, 4)})
         => StatusAt(Position(2, 2)) = {"Match"}

C7_Witness ==
    /\ puzzle = Mountain5x5
    /\ Occupied = {Position(0, 0), Position(4, 4)}
    /\ StatusAt(Position(2, 2)) = {"Match"}

\* C8: constraint_violations has exactly one entry for every Lake and every
\* Mountain cell, whatever the status, and no entry for any other cell.
C8_TotalMapping ==
    LET cv == result.constraint_violations
    IN  /\ \A p \in LakeCells \cup MountainCells : Cardinality(EntriesAt(p)) = 1
        /\ \A k \in 1 .. Len(cv) : cv[k].position \in LakeCells \cup MountainCells
        /\ Len(cv) = Cardinality(LakeCells \cup MountainCells)
        /\ \A k1, k2 \in 1 .. Len(cv) : k1 # k2 => cv[k1].position # cv[k2].position

C8_Witness ==
    /\ \E p \in LakeCells : StatusAt(p) = {"Match"}
    /\ \E p \in MountainCells : StatusAt(p) = {"Match"}
    /\ \E p \in Cells(puzzle) : puzzle.field[p.row][p.col] = "Tree"

\* the placements of a set of positions in row-major order, each once
RECURSIVE RowMajor(_, _)
RowMajor(k, positions) ==
    IF k >= rows(puzzle) * cols(puzzle) THEN <<>>
    ELSE LET p == Position(k \div cols(puzzle), k % cols(puzzle))
         IN  (IF p \in positions THEN <<[position |-> p]>> ELSE <<>>)
             \o RowMajor(k + 1, positions)

\* C9: the row, column and constraint outputs depend on the set of occupied
\* positions only: they equal those of the solution that lists each occupied
\* position once in row-major order.
C9_SetLike ==
    LET other == validate_solution(RowMajor(0, Occupied), puzzle)
    IN  /\ result.row_status = other.row_status
        /\ result.col_status = other.col_status
        /\ result.constraint_violations = other.constraint_violations

C9_Witness ==
    /\ Len(solution) > Cardinality(Occupied)
    /\ Cardinality(Occupied) >= 2
    /\ solution # RowMajor(0, Occupied)
    /\ \E p \in LakeCells : StatusAt(p) # {"Underflow"}

\* ------------------------------------------------------------------------
\* Properties of the game (checked under Spec)
\* ------------------------------------------------------------------------

\* C10: no two placements of the solution share a position.
C10_NoSharedPosition ==
    \A i, j \in 1 .. Len(solution) : i # j => solution[i].position # solution[j].position

C10_Witness ==
    /\ last_click.left
    /\ ~last_click.right
    /\ last_click.on = "house"
    /\ Len(solution) >= 1
    /\ current_level > 0

\* C11: every placement of the solution lies on a Grass cell of the current
\* puzzle, and a frame with a left-click on a Tree, Lake or Mountain cell
\* leaves the solution unchanged.
C11_OnlyOnGrass ==
    /\ [](\A i \in 1 .. Len(solution) :
            puzzle.field[solution[i].position.row][solution[i].position.col] = "Grass")
    /\ [][(last_click'.left /\ last_click'.on = "terrain") => solution' = solution]_vars

C11_Witness ==
    /\ last_click.left
    /\ last_click.on = "terrain"
    /\ Len(solution) >= 1
    /\ current_level > 0

\* ------------------------------------------------------------------------
\* Further properties of validate_solution (checked under SpecValidate)
\* ------------------------------------------------------------------------

\* C12: for the empty solution every row and column status is Underflow
\* when its target is above 0 and Match when it is 0, placement_violations
\* is empty, and every Lake and Mountain has the status Underflow.
C12_EmptySolution ==
    solution = <<>> =>
        /\ \A r \in 0 .. rows(puzzle) - 1 :
             result.row_status[r] = IF puzzle.row_count[r] > 0 THEN "Underflow" ELSE "Match"
        /\ \A c \in 0 .. cols(puzzle) - 1 :
             result.col_status[c] = IF puzzle.col_count[c] > 0 THEN "Underflow" ELSE "Match"
        /\ result.placement_violations = <<>>
        /\ \A p \in LakeCells \cup MountainCells : StatusAt(p) = {"Underflow"}

C12_Witness ==
    /\ solution = <<>>
    /\ LakeCells # {}
    /\ MountainCells # {}
    /\ \E r \in 0 .. rows(puzzle) - 1 : puzzle.row_count[r] = 0 /\ result.row_status[r] = "Match"
    /\ \E r \in 0 .. rows(puzzle) - 1 : puzzle.row_count[r] > 0 /\ result.row_status[r] = "Underflow"
    /\ \E c \in 0 .. cols(puzzle) - 1 : puzzle.col_count[c] > 0 /\ result.col_status[c] = "Underflow"

\* C13: a solution whose placements are on pairwise distinct positions, no
\* two of them orthogonally adjacent, has no placement violation.
C13_NoViolationWhenApart ==
    (\A i, j \in 1 .. Len(solution) :
        i # j => /\ solution[i].position # solution[j].position
                 /\ Abs(solution[i].position.row - solution[j].position.row)
                      + Abs(solution[i].position.col - solution[j].position.col) # 1)
    => result.placement_violations = <<>>

C13_Witness ==
    /\ Len(solution) >= 3
    /\ Cardinality(Occupied) = Len(solution)
    /\ \A q \in Occupied : NextTo(q) = {}
    /\ \E q1, q2 \in Occupied : Abs(q1.row - q2.row) = 1 /\ Abs(q1.col - q2.col) = 1
    /\ result.placement_violations = <<>>

\* C14 as stated: on the 4x4 grid with a Lake at (1,1), houses on all 8
\* neighbours of the Lake and none on it give the entry (1,1) the status
\* Match, and any 7 of them give Underflow.
C14_EightNeighboursMatch ==
    (puzzle = Lake4x4 /\ Occupied \subseteq LakeSurround) =>
        /\ Cardinality(Occupied) = 8 => StatusAt(Position(1, 1)) = {"Match"}
        /\ Cardinality(Occupied) = 7 => StatusAt(Position(1, 1)) = {"Underflow"}

\* C14 as amended: on that grid houses on all 8 neighbours, or on any 7 of
\* them, give the entry (1,1) the status Overflow; houses on exactly 3 of
\* the neighbours give Match, and any 2 of those 3 give Underflow.
C14_ThreeNeighboursMatch ==
    (puzzle = Lake4x4 /\ Occupied \subseteq LakeSurround) =>
        /\ Cardinality(EntriesAt(Position(1, 1))) = 1
        /\ Cardinality(Occupied) = 8 => StatusAt(Position(1, 1)) = {"Overflow"}
        /\ Cardinality(Occupied) = 7 => StatusAt(Position(1, 1)) = {"Overflow"}
        /\ Cardinality(Occupied) = 3 => StatusAt(Position(1, 1)) = {"Match"}
        /\ Cardinality(Occupied) = 2 => StatusAt(Position(1, 1)) = {"Underflow"}

C14_Witness ==
    /\ puzzle = Lake4x4
    /\ Occupied = LakeSurround
    /\ Position(1, 1) \notin Occupied
    /\ StatusAt(Position(1, 1)) = {"Overflow"}

\* C15: is_valid is a boolean for every signed coordinate and true exactly
\* for the coordinates of the grid; the three counting helpers index the
\* occupancy grid at cells of the grid only, and each counts occupied cells
\* of the grid only.
C15_BoundsGuard ==
    LET limit == IF rows(puzzle) >= cols(puzzle) THEN rows(puzzle) ELSE cols(puzzle)
        has_house == has_house_of(solution, puzzle)
    IN  /\ \A row \in -limit .. rows(puzzle) + limit : \A col \in -limit .. cols(puzzle) + limit :
             /\ is_valid(puzzle, row, col) \in BOOLEAN
             /\ is_valid(puzzle, row, col) <=> (row \in 0 .. rows(puzzle) - 1 /\ col \in 0 .. cols(puzzle) - 1)
        /\ \A p \in Cells(puzzle) :
             /\ reads_in_3x3(p.row, p.col, puzzle) \subseteq Cells(puzzle)
             /\ reads_adjacent(p.row, p.col, puzzle) \subseteq Cells(puzzle)
             /\ reads_diagonal(p.row, p.col, puzzle) \subseteq Cells(puzzle)
             /\ count_houses_in_3x3(p.row, p.col, has_house, puzzle)
                  = Cardinality({q \in Occupied : Abs(q.row - p.row) <= 1 /\ Abs(q.col - p.col) <= 1})
             /\ count_adjacent_houses(p.row, p.col, has_house, puzzle)
                  = IF NextTo(p) # {} THEN 1 ELSE 0
             /\ count_diagnoal_houses(p.row, p.col, has_house, puzzle)
                  = Cardinality({q \in Occupied : q # p /\ Abs(q.row - p.row) = Abs(q.col - p.col)})

C15_Witness ==
    /\ \E p \in LakeCells :
         /\ p.row = 0 /\ p.col = 0
         /\ Around(p) = reads_in_3x3(p.row, p.col, puzzle) \ {p}
    /\ \E p \in MountainCells : p.row = 0 /\ StatusAt(p) = {"Match"}

\* ------------------------------------------------------------------------
\* Properties of parse_field (checked under SpecParse)
\* ------------------------------------------------------------------------

\* the characters of the parsed text with their positions
TextCells == {<<r, c>> \in (1 .. Len(text)) \X (1 .. Len(text[1])) : TRUE}

\* C16 as stated: parse_field fails exactly when the text holds a character
\* other than '.', 'T', 'L', 'M'.
C16_FailsOnUnknown ==
    parsed.panic <=> \E rc \in TextCells : text[rc[1]][rc[2]] \notin {".", "T", "L", "M"}

\* C16 as amended: parse_field fails exactly when the text holds a character
\* other than '.', 'T', 'L', 'M' and 'x'; when it does not fail, a cell of
\* the field is Grass for '.' and for 'x', Tree for 'T', Lake for 'L' and
\* Mountain for 'M'.
C16_FailsOnUnknownButX ==
    /\ parsed.panic <=> \E rc \in TextCells : text[rc[1]][rc[2]] \notin {".", "T", "L", "M", "x"}
    /\ ~parsed.panic =>
         \A rc \in TextCells :
            parsed.field[rc[1] - 1][rc[2] - 1] =
                CASE text[rc[1]][rc[2]] = "." -> "Grass"
                  [] text[rc[1]][rc[2]] = "x" -> "Grass"
                  [] text[rc[1]][rc[2]] = "T" -> "Tree"
                  [] text[rc[1]][rc[2]] = "L" -> "Lake"
                  [] text[rc[1]][rc[2]] = "M" -> "Mountain"

C16_Witness ==
    /\ ~parsed.panic
    /\ \E rc \in TextCells : text[rc[1]][rc[2]] = "x" /\ parsed.field[rc[1] - 1][rc[2] - 1] = "Grass"
    /\ \E rc \in TextCells : text[rc[1]][rc[2]] = "L"
    /\ Len(text) >= 2
    /\ Len(text[1]) >= 2

\* ------------------------------------------------------------------------
\* Further properties of the game (checked under Spec)
\* ------------------------------------------------------------------------

\* C17: entering SwitchLevel loads the level of current_level with an empty
\* solution and an all-false hints grid of the new puzzle's dimensions; they
\* stay so while the app is in SwitchLevel, and InGame is entered from
\* SwitchLevel only, with that puzzle, empty solution and hints grid.
C17_FreshOnSwitch ==
    /\ [](app_state = "SwitchLevel" => (solution = <<>> /\ hints = no_hints(puzzle)))
    /\ [][(app_state # "SwitchLevel" /\ app_state' = "SwitchLevel") =>
            /\ puzzle' = all_levels[current_level' + 1].puzzle
            /\ name' = all_levels[current_level' + 1].name
            /\ solution' = <<>>
            /\ hints' = no_hints(puzzle')]_vars
    /\ [][(app_state # "InGame" /\ app_state' = "InGame") =>
            /\ app_state = "SwitchLevel"
            /\ puzzle' = puzzle
            /\ solution' = <<>>
            /\ hints' = no_hints(puzzle')]_vars

C17_Witness ==
    /\ app_state = "SwitchLevel"
    /\ phase = "update"
    /\ next_state = "InGame"
    /\ current_level > 0
    /\ rows(puzzle) >= 2
    /\ solution = <<>>
    /\ hints = no_hints(puzzle)

\* C18: at the end of an Update in which detect_complete_level found the
\* solution complete, the CompleteBanner is Visible.
C18_BannerWhenComplete ==
    observed => (app_state = "InGame" /\ phase = "transition" /\ banner = "Visible")

C18_Witness ==
    /\ observed
    /\ banner = "Visible"
    /\ last_click.left
    /\ Len(solution) >= 1
    /\ current_level > 0

\* C19: every placement position is a cell of the current puzzle, row_count
\* and col_count have one entry per row and column, and validate_solution
\* returns a result whose entries are statuses.
C19_PlacementsInBounds ==
    LET validation_result == validate_solution(solution, puzzle)
        statuses == {"Underflow", "Match", "Overflow"}
    IN  /\ \A i \in 1 .. Len(solution) :
             is_valid(puzzle, solution[i].position.row, solution[i].position.col)
        /\ DOMAIN puzzle.row_count = 0 .. rows(puzzle) - 1
        /\ DOMAIN puzzle.col_count = 0 .. cols(puzzle) - 1
        /\ \A r \in 0 .. rows(puzzle) - 1 : DOMAIN puzzle.field[r] = 0 .. cols(puzzle) - 1
        /\ DOMAIN hints = 0 .. rows(puzzle) - 1
        /\ \A r \in 0 .. rows(puzzle) - 1 : validation_result.row_status[r] \in statuses
        /\ \A c \in 0 .. cols(puzzle) - 1 : validation_result.col_status[c] \in statuses
        /\ \A k \in 1 .. Len(validation_result.constraint_violations) :
             validation_result.constraint_violations[k].violation \in statuses
        /\ \A k \in 1 .. Len(validation_result.placement_violations) :
             validation_result.placement_violations[k].house_index \in 0 .. Len(solution) - 1
        /\ validation_result.complete \in BOOLEAN

C19_Witness ==
    /\ last_click.left
    /\ last_click.on = "off_grid"
    /\ \E i \in 1 .. Len(solution) : solution[i].position.row = rows(puzzle) - 1
    /\ current_level > 0

\* ------------------------------------------------------------------------
\* Properties of the mouse handlers (checked under Spec)
\* ------------------------------------------------------------------------

\* C21: a frame with a right-click on a cell that holds a house leaves the
\* solution equal to the previous one with that one placement removed, the
\* other placements in their order, and the hint flag of the cell false.
C21_RightClickRemovesHouse ==
    [][(last_click'.right /\ last_click'.on = "house") =>
          \E i \in 1 .. Len(solution) :
              /\ solution' = remove(solution, i - 1)
              /\ \A j \in 1 .. Len(solution') : solution'[j].position # solution[i].position
              /\ ~hints'[solution[i].position.row][solution[i].position.col]]_vars

\* cells whose hint flag differs between two hint grids of the same puzzle
hint_changes(before, after) ==
    {c \in Cells(puzzle) : before[c.row][c.col] # after[c.row][c.col]}

\* C22: a frame with a right-click alone on a house-free Grass cell inverts
\* exactly one hint flag and changes no placement; a right-click alone on a
\* house-free Tree, Lake or Mountain cell changes nothing.
C22_RightClickTogglesHint ==
    /\ [][(last_click'.right /\ ~last_click'.left /\ last_click'.on = "grass") =>
            /\ solution' = solution
            /\ Cardinality(hint_changes(hints, hints')) = 1]_vars
    /\ [][(last_click'.right /\ ~last_click'.left /\ last_click'.on = "terrain") =>
            /\ solution' = solution
            /\ hints' = hints]_vars

\* C23: a cell whose hint flag is true is a Grass cell that holds no house,
\* and a frame with a left-click alone on a house-free Grass cell ends with
\* a house on a cell whose hint flag is false.
C23_HintsOnFreeGrass ==
    /\ [](\A c \in Cells(puzzle) :
            hints[c.row][c.col] => (puzzle.field[c.row][c.col] = "Grass" /\ c \notin Occupied))
    /\ [][(last_click'.left /\ ~last_click'.right /\ last_click'.on = "grass") =>
            /\ Len(solution') = Len(solution) + 1
            /\ ~hints'[solution'[Len(solution')].position.row][solution'[Len(solution')].position.col]
            /\ hint_changes(hints, hints') \subseteq {solution'[Len(solution')].position}]_vars

\* a house has just been placed next to a cell that keeps its hint
C23_Witness ==
    /\ last_click.left
    /\ last_click.on = "grass"
    /\ Len(solution) = 1
    /\ hint_count(hints) = 1

\* ------------------------------------------------------------------------
\* Properties of the level switch (checked under Spec)
\* ------------------------------------------------------------------------

\* C24: current_level is an index into all_levels(); the Left key at level 0
\* and the Right key or the Complete button at the last level change neither
\* current_level nor the state queued in NextState.
C24_LevelInRange ==
    /\ current_level \in 0 .. Len(all_levels) - 1
    /\ current_level = 0 =>
         LET g == keyboard_input(World, {"Left"})
         IN  g.current_level = current_level /\ g.next_state = next_state
    /\ current_level = Len(all_levels) - 1 =>
         LET g == keyboard_input(World, {"Right"})
             b == button_system(World, "Complete")
         IN  /\ g.current_level = current_level /\ g.next_state = next_state
             /\ b.current_level = current_level /\ b.next_state = next_state

\* the game screen of the last level with a house placed
C24_Witness ==
    /\ current_level = Len(all_levels) - 1
    /\ app_state = "InGame"
    /\ phase = "update"
    /\ Len(solution) >= 1

\* C25: the state transition that follows an entry into SwitchLevel leads
\* to InGame, with puzzle and name those of all_levels()[current_level].
C25_SwitchLevelTransient ==
    [][(app_state = "SwitchLevel" /\ phase = "transition") =>
          /\ app_state' = "InGame"
          /\ puzzle' = all_levels[current_level' + 1].puzzle
          /\ name' = all_levels[current_level' + 1].name]_vars

\* ------------------------------------------------------------------------
\* Properties of detect_complete_level (checked under Spec)
\* ------------------------------------------------------------------------

\* C26: on the game screen, once detect_complete_level has run on the
\* current solution (an Update that leaves the solution as it was), a
\* visible CompleteBanner implies that the solution is complete.
C26_BannerOnlyWhenComplete ==
    [][(app_state = "InGame" /\ phase = "update" /\ solution' = solution /\ banner' = "Visible") =>
          validate_solution(solution', puzzle').complete]_vars

\* C27: during one stay in InGame the level_success sound is spawned at most
\* once, and a frame in which the banner is already visible spawns none.
C27_SuccessSoundOnce ==
    /\ [](success_sounds <= 1)
    /\ [][(app_state = "InGame" /\ phase = "update" /\ banner = "Visible") =>
            success_sounds' = success_sounds]_vars

\* the sound has played and a house of the complete solution has just been
\* removed
C27_Witness ==
    /\ app_state = "InGame"
    /\ success_sounds = 1
    /\ banner = "Visible"
    /\ last_click.right
    /\ last_click.on = "house"
    /\ ~validate_solution(solution, puzzle).complete

\* ------------------------------------------------------------------------
\* Frame properties of validate_solution (checked under SpecValidate)
\* ------------------------------------------------------------------------

\* Underflow below Match below Overflow
LineRank(status) ==
    CASE status = "Underflow" -> 0
      [] status = "Match" -> 1
      [] status = "Overflow" -> 2

\* between two results the line statuses differ at most in row p.row and
\* column p.col
OnlyLinesOf(p, before, after) ==
    /\ \A r \in 0 .. rows(puzzle) - 1 : r # p.row => after.row_status[r] = before.row_status[r]
    /\ \A c \in 0 .. cols(puzzle) - 1 : c # p.col => after.col_status[c] = before.col_status[c]

\* C28: pushing or removing a placement at (r,c) leaves the statuses of all
\* rows other than r and all columns other than c as they were, and pushing
\* a placement moves no row or column status downward.
C28_LineStatusFrame ==
    /\ [][Len(solution') = Len(solution) + 1 =>
            /\ OnlyLinesOf(solution'[Len(solution')].position, result, result')
            /\ \A r \in 0 .. rows(puzzle) - 1 :
                 LineRank(result'.row_status[r]) >= LineRank(result.row_status[r])
            /\ \A c \in 0 .. cols(puzzle) - 1 :
                 LineRank(result'.col_status[c]) >= LineRank(result.col_status[c])]_vars
    /\ [][Len(solution') = Len(solution) - 1 =>
            \E i \in 1 .. Len(solution) :
                /\ solution' = remove(solution, i - 1)
                /\ OnlyLinesOf(solution[i].position, result, result')]_vars

\* the row of the latest placement is in Overflow while another row and
\* another column are in Match
C28_Witness ==
    /\ Len(solution) >= 2
    /\ LET p == solution[Len(solution)].position
       IN  /\ result.row_status[p.row] = "Overflow"
           /\ \E r \in 0 .. rows(puzzle) - 1 : r # p.row /\ result.row_status[r] = "Match"
           /\ \E c \in 0 .. cols(puzzle) - 1 : c # p.col /\ result.col_status[c] = "Match"

\* ------------------------------------------------------------------------
\* Solvability of the levels (checked under SpecPlay)
\* ------------------------------------------------------------------------

\* C29: every level of all_levels() can be solved by left-clicks on Grass
\* cells. Playing from level 0 with left-clicks and the Complete button
\* only, the solution grows by one house on a Grass cell per left-click and
\* is emptied only by a level switch, current_level changes only by one
\* step upwards and only from a solution whose row, column and constraint
\* statuses are all Match and whose placement_violations is empty; the last
\* level is reached with such a solution (C29_Witness).
C29_LevelsSolvable ==
    /\ [][solution' # solution =>
            \/ solution' = <<>> /\ app_state' = "SwitchLevel"
            \/ /\ last_click'.left /\ ~last_click'.right /\ last_click'.on = "grass"
               /\ Len(solution') = Len(solution) + 1
               /\ SubSeq(solution', 1, Len(solution)) = solution
               /\ puzzle' = puzzle
               /\ puzzle.field[solution'[Len(solution')].position.row]
                              [solution'[Len(solution')].position.col] = "Grass"]_vars
    /\ [][current_level' # current_level =>
            /\ current_level' = current_level + 1
            /\ puzzle = all_levels[current_level + 1].puzzle
            /\ LET v == validate_solution(solution, puzzle)
               IN  /\ \A r \in 0 .. rows(puzzle) - 1 : v.row_status[r] = "Match"
                   /\ \A c \in 0 .. cols(puzzle) - 1 : v.col_status[c] = "Match"
                   /\ \A k \in 1 .. Len(v.constraint_violations) :
                        v.constraint_violations[k].violation = "Match"
                   /\ v.placement_violations = <<>>]_vars

\* the last level solved, every level before it having been solved on the way
C29_Witness ==
    /\ current_level = Len(all_levels) - 1
    /\ app_state = "InGame"
    /\ puzzle = all_levels[Len(all_levels)].puzzle
    /\ LET v == validate_solution(solution, puzzle)
       IN  /\ \A r \in 0 .. rows(puzzle) - 1 : v.row_status[r] = "Match"
           /\ \A c \in 0 .. cols(puzzle) - 1 : v.col_status[c] = "Match"
           /\ \A k \in 1 .. Len(v.constraint_violations) :
                v.constraint_violations[k].violation = "Match"
           /\ v.placement_violations = <<>>

\* ------------------------------------------------------------------------
\* The puzzle during a level (checked under Spec)
\* ------------------------------------------------------------------------

\* C30: the puzzle (field, row_count, col_count) changes only in the
\* transition that enters SwitchLevel; no Update of an InGame frame, with
\* clicks, keys, buttons or none, changes it.
C30_PuzzleReadOnly ==
    /\ [][puzzle' # puzzle => (app_state # "SwitchLevel" /\ app_state' = "SwitchLevel")]_vars
    /\ [][(app_state = "InGame" /\ phase = "update") => puzzle' = puzzle]_vars

\* a level after the first, with the sound switched on and a house just removed
C30_Witness ==
    /\ app_state = "InGame"
    /\ current_level > 0
    /\ puzzle = all_levels[current_level + 1].puzzle
    /\ volume = 1
    /\ last_click.right
    /\ last_click.on = "house"
    /\ hint_count(hints) >= 1

====
